---- MODULE Spec2Model ----
(***************************************************************************)
(* Model of boxapi.core.Session (src/boxapi/core.py): a synchronous client *)
(* of the Box HTTP API.  Every public method of Session is one action; the *)
(* transport (requests.request) and the auth module answer with a value    *)
(* chosen by the environment.                                              *)
(***************************************************************************)
EXTENDS Integers, Sequences, FiniteSets, TLC

\* ---- bounds of the model ----
MaxId == 1
MaxStrLen == 2
MaxBodyLen == 2
MaxRequests == 2

\* ---- Python values ----
IntVal(n) == [t |-> "int", n |-> n]
StrVal(s) == [t |-> "str", s |-> s]
FloatVal == [t |-> "float"]
NoneVal == [t |-> "NoneType"]
DictNoId == [t |-> "dict", keys |-> {}]
DictId(v) == [t |-> "dict", keys |-> {"id"}, id |-> v]

\* strings are sequences of characters
Chars == {"0", "1", "x"}
DigitSeq == <<"0", "1", "2", "3", "4", "5", "6", "7", "8", "9">>
Digits == {DigitSeq[i] : i \in 1..Len(DigitSeq)}

StringsUpTo(k) == UNION {[1..n -> Chars] : n \in 0..k}

Ints == {IntVal(n) : n \in (0 - MaxId)..MaxId}
Strs == {StrVal(s) : s \in StringsUpTo(MaxStrLen)}
Scalars == Ints \cup Strs \cup {FloatVal, NoneVal}
Values == Scalars \cup {DictNoId} \cup {DictId(v) : v \in Scalars}

\* isinstance(x, int)
IsInt(v) == v.t = "int"
\* isinstance(x, types.StringTypes)
IsString(v) == v.t = "str"
\* str.isdigit(): non-empty and every character a decimal digit
isdigit(s) == Len(s) > 0 /\ \A i \in 1..Len(s) : s[i] \in Digits

\* numeric value of a digit string
DigitVal(c) == CHOOSE d \in 0..9 : DigitSeq[d + 1] = c
RECURSIVE NumValOf(_)
NumValOf(s) == IF Len(s) = 0 THEN 0
               ELSE 10 * NumValOf(SubSeq(s, 1, Len(s) - 1)) + DigitVal(s[Len(s)])

\* "%d" % n  (and "%s" % n for an int): the decimal rendering of an integer
RECURSIVE NatToStr(_)
NatToStr(n) == IF n < 10 THEN <<DigitSeq[n + 1]>>
               ELSE NatToStr(n \div 10) \o <<DigitSeq[(n % 10) + 1]>>
FormatD(n) == IF n < 0 THEN <<"-">> \o NatToStr(0 - n) ELSE NatToStr(n)

\* "%s" % v for the values a session stores: None renders as the text None
FormatS(v) == IF v.t = "NoneType" THEN <<"N", "o", "n", "e">>
              ELSE IF v.t = "int" THEN FormatD(v.n)
              ELSE v.s

\* ---- outcome of a call ----
Ok(v) == [error |-> "none", value |-> v]
Raise(e) == [error |-> e, value |-> NoneVal]

\* Session.numeric_id_to_object
numeric_id_to_object_converting(object_) ==
    IF IsInt(object_) THEN Ok(DictId(object_))
    ELSE IF IsString(object_) /\ isdigit(object_.s)
    THEN Ok(DictId(IntVal(NumValOf(object_.s))))
    ELSE IF object_.t = "dict"
    THEN IF "id" \notin object_.keys
         THEN Raise("Exception")
         ELSE IF ~(IsInt(object_.id) \/ (IsString(object_.id) /\ isdigit(object_.id.s)))
         THEN Raise("Exception")
         ELSE Ok(object_)
    ELSE Raise("TypeError")

numeric_id_to_object(object_) ==
    IF IsInt(object_) \/ (IsString(object_) /\ isdigit(object_.s))
    THEN Ok(DictId(object_))
    ELSE IF object_.t = "dict"
    THEN IF "id" \notin object_.keys
         THEN Raise("Exception")
         ELSE IF ~(IsInt(object_.id) \/ (IsString(object_.id) /\ isdigit(object_.id.s)))
         THEN Raise("Exception")
         ELSE Ok(object_)
    ELSE Raise("TypeError")

\* ---- module constants ----
API_URL == "https://api.box.com/2.0"
API_UPLOAD_URL == "https://upload.box.com/api/2.0"

\* ---- environment: local file system, transport, auth module ----
\* a path is its sequence of components
Paths == {<<"tmp", "a">>, <<"tmp", "missing">>}
ExistingPaths == {<<"tmp", "a">>}
\* os.path.exists
exists(path) == path \in ExistingPaths
\* os.path.basename
basename(path) == path[Len(path)]

\* what requests.request does: raises a transport error, or answers with a body
Bodies == StringsUpTo(MaxBodyLen)
Responses == {[raises |-> TRUE, content |-> <<>>]}
             \cup {[raises |-> FALSE, content |-> b] : b \in Bodies}
NoResponse == [raises |-> FALSE, content |-> <<"-">>]

\* a dict argument (None is NoneVal); a dict is truthy iff it is non-empty
Dict(d) == [t |-> "dict", d |-> d]
EmptyDict == Dict([k \in {} |-> NoneVal])
Truthy(x) == IF x.t = "dict" THEN DOMAIN x.d # {}
             ELSE IF x.t = "int" THEN x.n # 0
             ELSE IF x.t = "str" THEN Len(x.s) > 0
             ELSE FALSE

\* response.json(): the bodies of the model that are JSON documents are the
\* JSON numbers (digits, no leading zero); any other body raises ValueError
IsJson(content) == isdigit(content) /\ (Len(content) = 1 \/ content[1] # "0")
json(content) == IntVal(NumValOf(content))

VARIABLES
    api_key,      \* Session.api_key
    auth_token,   \* Session.auth_token (NoneVal when unset)
    ticket,       \* Session.ticket (NoneVal before apply_new_authtoken)
    auth_url,     \* Session.auth_url
    sent,         \* number of calls of requests.request made by Session.action
    opened,       \* number of files opened so far
    openHandles,  \* handles opened and not closed
    last          \* the last call: operation, arguments, outcome

vars == <<api_key, auth_token, ticket, auth_url, sent, opened, openHandles, last>>

\* the header value "BoxAuth api_key=%s&auth_token=%s" % (api_key, auth_token)
AuthorizationValue(key, token) ==
    <<"BoxAuth api_key=", FormatS(key), "&auth_token=", FormatS(token)>>

\* dict.update
update_replace(d, other) == other

update(d, other) ==
    [k \in (DOMAIN d) \cup (DOMAIN other) |->
        IF k \in DOMAIN other THEN other[k] ELSE d[k]]

\* the value Session.action returns for a response
decode_swapped(content) ==
    IF IsJson(content) THEN json(content)
    ELSE IF Len(content) > 0 THEN NoneVal
    ELSE StrVal(content)

decode(content) ==
    IF IsJson(content) THEN json(content)
    ELSE IF Len(content) > 0 THEN StrVal(content)
    ELSE NoneVal

\* Session.action; response is the transport's answer to the request
BuildRequest(path, base_path, method, headers, params, data, raw_data, files) ==
    LET default == [h \in {"Authorization"} |-> AuthorizationValue(api_key, auth_token)]
    IN [method  |-> method,
        url     |-> <<base_path, path>>,
        headers |-> IF Truthy(headers) THEN update(default, headers.d) ELSE default,
        params  |-> IF Truthy(params) THEN params ELSE NoneVal,
        data    |-> IF Truthy(data)
                    THEN [encoding |-> IF raw_data THEN "json" ELSE "form", d |-> data.d]
                    ELSE [encoding |-> "absent"],
        files   |-> IF Truthy(files) THEN files ELSE NoneVal]

action_retry(path, base_path, method, headers, params, data, raw_data, files, response) ==
    LET request == BuildRequest(path, base_path, method, headers, params, data, raw_data, files)
    IN IF response.raises
       THEN [error |-> "ConnectionError", value |-> NoneVal, requests |-> <<request, request>>]
       ELSE [error |-> "none", value |-> decode(response.content),
             requests |-> IF IsJson(response.content) THEN <<request>>
                          ELSE <<request, request>>]

action(path, base_path, method, headers, params, data, raw_data, files, response) ==
    LET request == BuildRequest(path, base_path, method, headers, params, data, raw_data, files)
    IN IF response.raises
       THEN [error |-> "ConnectionError", value |-> NoneVal, requests |-> <<request>>]
       ELSE [error |-> "none", value |-> decode(response.content), requests |-> <<request>>]

\* an operation's outcome: error, value, the requests it made, the handles
\* it opened and the handles it closed
Failed(e) == [error |-> e, value |-> NoneVal, requests |-> <<>>, fh |-> {}, closed |-> {}]
Plain(a) == [error |-> a.error, value |-> a.value, requests |-> a.requests,
             fh |-> {}, closed |-> {}]

\* Session.create_folder
create_folder(name, parent, response) ==
    LET p == numeric_id_to_object(parent) IN
    IF p.error # "none" THEN Failed(p.error)
    ELSE Plain(action(<<"/folders">>, API_URL, "POST", NoneVal, NoneVal,
                      Dict([name |-> name, parent |-> p.value]), TRUE, NoneVal, response))

\* Session.folder_info
folder_info(folder_id, response) ==
    IF ~IsInt(folder_id) THEN Failed("TypeError")
    ELSE Plain(action(<<"/folders/", FormatD(folder_id.n)>>, API_URL, "GET",
                      NoneVal, NoneVal, NoneVal, TRUE, NoneVal, response))

\* the upload itself: fh = open(path); response = self.action(...); fh.close()
Upload(a, fh) ==
    [error |-> a.error, value |-> a.value, requests |-> a.requests,
     fh |-> {fh}, closed |-> IF a.error = "none" THEN {fh} ELSE {}]

\* Session.upload_file; fh is the handle open() returns
upload_file_open_first(path, parent, fh, response) ==
    IF ~exists(path) THEN Failed("ValueError")
    ELSE LET p == numeric_id_to_object(parent) IN
         IF p.error # "none"
         THEN [error |-> p.error, value |-> NoneVal, requests |-> <<>>, fh |-> {fh},
               closed |-> {}]
         ELSE Upload(action(<<"/files/content">>, API_UPLOAD_URL, "POST", NoneVal, NoneVal,
                            Dict([parent_id |-> p.value.id, filename |-> basename(path)]),
                            FALSE, Dict([filename |-> fh]), response), fh)

upload_file(path, parent, fh, response) ==
    IF ~exists(path) THEN Failed("ValueError")
    ELSE LET p == numeric_id_to_object(parent) IN
         IF p.error # "none" THEN Failed(p.error)
         ELSE Upload(action(<<"/files/content">>, API_UPLOAD_URL, "POST", NoneVal, NoneVal,
                            Dict([parent_id |-> p.value.id, filename |-> basename(path)]),
                            FALSE, Dict([filename |-> fh]), response), fh)

\* Session.download_file
download_file(file_id, version_id, response) ==
    IF ~IsInt(file_id) THEN Failed("TypeError")
    ELSE IF version_id # NoneVal /\ ~IsInt(version_id) THEN Failed("TypeError")
    ELSE LET url == <<"/files/", FormatD(file_id.n), "/content">> IN
         IF version_id = NoneVal
         THEN Plain(action(url, API_URL, "GET", NoneVal, NoneVal, NoneVal, TRUE, NoneVal,
                           response))
         ELSE Plain(action(url, API_URL, "GET", NoneVal, Dict([version |-> version_id]),
                           NoneVal, TRUE, NoneVal, response))

\* Session.file_info
file_info(file_id, response) ==
    IF ~IsInt(file_id) THEN Failed("TypeError")
    ELSE Plain(action(<<"/files/", FormatS(file_id)>>, API_URL, "GET",
                      NoneVal, NoneVal, NoneVal, TRUE, NoneVal, response))

\* Session.upload_file_version
upload_file_version(path, file_id, etag, fh, response) ==
    IF ~exists(path) THEN Failed("ValueError")
    ELSE IF ~IsInt(file_id) THEN Failed("TypeError")
    ELSE IF ~IsInt(etag) THEN Failed("TypeError")
    ELSE Upload(action(<<"/files/", FormatD(file_id.n), "/content">>, API_UPLOAD_URL, "POST",
                       Dict([h \in {"If-Match"} |-> etag]), NoneVal,
                       Dict([name |-> basename(path)]),
                       FALSE, Dict([filename |-> fh]), response), fh)

\* Session.view_file_versions
view_file_versions(file_id) == Failed("NotImplementedError")

\* Session.update_file_infomation
update_file_infomation == Failed("NotImplementedError")

\* Session.delete_file
delete_file(file_id, etag, response) ==
    IF ~IsInt(file_id) THEN Failed("TypeError")
    ELSE IF etag # NoneVal /\ ~IsInt(etag) THEN Failed("TypeError")
    ELSE IF Truthy(etag)
    THEN Plain(action(<<"/files/", FormatD(file_id.n)>>, API_URL, "DELETE",
                      Dict([h \in {"If-Match"} |-> etag]), NoneVal, NoneVal, TRUE, NoneVal,
                      response))
    ELSE Plain(action(<<"/files/", FormatD(file_id.n)>>, API_URL, "DELETE",
                      NoneVal, NoneVal, NoneVal, TRUE, NoneVal, response))

\* ---- the auth module (auth.get_ticket, auth.open_for_auth_ticket,
\* auth.get_auth_token) ----
Tickets == {StrVal(<<"1">>)}
Tokens == {StrVal(<<"x">>)}
ApiKeys == {StrVal(<<"0">>)}
\* auth.get_ticket: a ticket, or a failure when the service returns none
get_ticket_results == {Ok(t) : t \in Tickets} \cup {Raise("Exception")}
\* auth.open_for_auth_ticket: the authorization URL of a ticket
open_for_auth_ticket(t) == <<"auth?ticket=", FormatS(t)>>
\* auth.get_auth_token: the parsed response; depth is how many of the keys
\* 'response', 'auth_token', 'value' are present along the path
AuthDepth == 3
get_auth_token_results ==
    {[depth |-> d, value |-> NoneVal] : d \in 0..(AuthDepth - 1)}
    \cup {[depth |-> AuthDepth, value |-> v] : v \in Tokens}

\* Session.authorize: the token it stores, and whether it raises
authorize_clears(result) ==
    IF result.depth = AuthDepth THEN Ok(result.value)
    ELSE [error |-> "Exception", value |-> NoneVal]

authorize(result) ==
    IF result.depth = AuthDepth THEN Ok(result.value)
    ELSE [error |-> "Exception", value |-> auth_token]

\* ---- the state machine ----
Init ==
    /\ api_key \in ApiKeys
    /\ auth_token \in {NoneVal} \cup Tokens
    /\ ticket = NoneVal
    /\ auth_url = NoneVal
    /\ sent = 0
    /\ opened = 0
    /\ openHandles = {}
    /\ last = [op |-> "__init__", args |-> <<>>, error |-> "none", result |-> NoneVal,
               requests |-> <<>>, response |-> NoResponse, fh |-> {}]

\* the effect of an endpoint call with outcome r on the session and its environment
Return(op, args, r, response) ==
    /\ sent' = sent + Len(r.requests)
    /\ opened' = opened + Cardinality(r.fh)
    /\ openHandles' = openHandles \cup (r.fh \ r.closed)
    /\ last' = [op |-> op, args |-> args, error |-> r.error, result |-> r.value,
                requests |-> r.requests,
                response |-> IF r.requests = <<>> THEN NoResponse ELSE response,
                fh |-> r.fh]
    /\ UNCHANGED <<api_key, auth_token, ticket, auth_url>>

ApplyNewAuthtoken ==
    /\ sent < MaxRequests
    /\ \E t \in get_ticket_results :
        /\ ticket' = IF t.error = "none" THEN t.value ELSE ticket
        /\ auth_url' = IF t.error = "none" THEN open_for_auth_ticket(t.value) ELSE auth_url
        /\ last' = [op |-> "apply_new_authtoken", args |-> <<>>, error |-> t.error,
                    result |-> NoneVal, requests |-> <<>>, response |-> NoResponse,
                    fh |-> {}]
        /\ UNCHANGED <<api_key, auth_token, sent, opened, openHandles>>

Authorize ==
    /\ sent < MaxRequests
    /\ \E t \in Tickets, result \in get_auth_token_results :
        LET r == authorize(result) IN
        /\ auth_token' = r.value
        /\ last' = [op |-> "authorize", args |-> [ticket |-> t, result |-> result],
                    error |-> r.error, result |-> NoneVal, requests |-> <<>>,
                    response |-> NoResponse, fh |-> {}]
        /\ UNCHANGED <<api_key, ticket, auth_url, sent, opened, openHandles>>

\* arguments of the id parameters, of the etag and of the version id
IdArgs == Ints \cup {StrVal(<<"1">>), FloatVal, NoneVal}
EtagArgs == {IntVal(0), IntVal(1), NoneVal, StrVal(<<"1">>)}
VersionArgs == {IntVal(1), NoneVal, FloatVal}
\* arguments of the parent parameter
Parents == Ints \cup {StrVal(<<"1">>), StrVal(<<"0", "1">>), StrVal(<<"x">>), FloatVal, NoneVal,
                      DictNoId, DictId(IntVal(1)), DictId(StrVal(<<"1">>)),
                      DictId(StrVal(<<"x">>))}
Names == {StrVal(<<"x">>)}
\* the transport's answers to an endpoint operation: an error, an empty body,
\* a JSON body, a body that is not JSON
EndpointResponses ==
    {r \in Responses : r.raises \/ r.content \in {<<>>, <<"1">>, <<"x">>}}
\* the transport answers only the calls that reach it: r0 is the outcome of
\* the operation computed with no answer
Answers(r0) == IF r0.requests = <<>> THEN {NoResponse} ELSE EndpointResponses
\* header dicts a caller of action passes
CallerHeaders ==
    {NoneVal, EmptyDict, Dict([h \in {"If-Match"} |-> IntVal(1)]),
     Dict([h \in {"Authorization"} |-> AuthorizationValue(StrVal(<<"x">>), StrVal(<<"x">>))])}
\* a direct call of action: every body without headers, every header dict
\* with the answers of an endpoint
ActionInputs == ({NoneVal} \X Responses) \cup (CallerHeaders \X EndpointResponses)

Action ==
    /\ sent < MaxRequests
    /\ \E in \in ActionInputs :
        Return("action", [headers |-> in[1]],
               Plain(action(<<"/x">>, API_URL, "GET", in[1], NoneVal, NoneVal, TRUE,
                            NoneVal, in[2])), in[2])

NumericIdToObject ==
    /\ sent < MaxRequests
    /\ \E object_ \in Values :
        LET r == numeric_id_to_object(object_) IN
        Return("numeric_id_to_object", [object_ |-> object_],
               [error |-> r.error, value |-> r.value, requests |-> <<>>, fh |-> {},
                closed |-> {}], NoResponse)

CreateFolder ==
    /\ sent < MaxRequests
    /\ \E name \in Names, parent \in Parents :
        \E response \in Answers(create_folder(name, parent, NoResponse)) :
            Return("create_folder", [name |-> name, parent |-> parent],
                   create_folder(name, parent, response), response)

FolderInfo ==
    /\ sent < MaxRequests
    /\ \E folder_id \in IdArgs :
        \E response \in Answers(folder_info(folder_id, NoResponse)) :
            Return("folder_info", [id |-> folder_id], folder_info(folder_id, response),
                   response)

UploadFile ==
    /\ sent < MaxRequests
    /\ \E path \in Paths, parent \in Parents :
        \E response \in Answers(upload_file(path, parent, opened + 1, NoResponse)) :
            Return("upload_file", [path |-> path, parent |-> parent],
                   upload_file(path, parent, opened + 1, response), response)

DownloadFile ==
    /\ sent < MaxRequests
    /\ \E file_id \in IdArgs, version_id \in VersionArgs :
        \E response \in Answers(download_file(file_id, version_id, NoResponse)) :
            Return("download_file", [id |-> file_id, version_id |-> version_id],
                   download_file(file_id, version_id, response), response)

FileInfo ==
    /\ sent < MaxRequests
    /\ \E file_id \in IdArgs :
        \E response \in Answers(file_info(file_id, NoResponse)) :
            Return("file_info", [id |-> file_id], file_info(file_id, response), response)

UploadFileVersion ==
    /\ sent < MaxRequests
    /\ \E path \in Paths, file_id \in IdArgs, etag \in EtagArgs :
        \E response \in Answers(upload_file_version(path, file_id, etag, opened + 1,
                                                    NoResponse)) :
            Return("upload_file_version", [path |-> path, id |-> file_id, etag |-> etag],
                   upload_file_version(path, file_id, etag, opened + 1, response), response)

ViewFileVersions ==
    /\ sent < MaxRequests
    /\ \E file_id \in IdArgs :
        Return("view_file_versions", [id |-> file_id], view_file_versions(file_id),
               NoResponse)

UpdateFileInfomation ==
    /\ sent < MaxRequests
    /\ Return("update_file_infomation", <<>>, update_file_infomation, NoResponse)

DeleteFile ==
    /\ sent < MaxRequests
    /\ \E file_id \in IdArgs, etag \in EtagArgs :
        \E response \in Answers(delete_file(file_id, etag, NoResponse)) :
            Return("delete_file", [id |-> file_id, etag |-> etag],
                   delete_file(file_id, etag, response), response)

Next ==
    \/ ApplyNewAuthtoken
    \/ Authorize
    \/ Action
    \/ NumericIdToObject
    \/ CreateFolder
    \/ FolderInfo
    \/ UploadFile
    \/ DownloadFile
    \/ FileInfo
    \/ UploadFileVersion
    \/ ViewFileVersions
    \/ UpdateFileInfomation
    \/ DeleteFile

Spec == Init /\ [][Next]_vars

\* ---- properties ----
EndpointOps == {"create_folder", "folder_info", "upload_file", "download_file", "file_info",
                "upload_file_version", "delete_file"}
UploadOps == {"upload_file", "upload_file_version"}
NotImplementedOps == {"view_file_versions", "update_file_infomation"}

\* an identifier that normalizes: an integer, a digit-only string, or a
\* mapping whose id is one of these
IntOrDigits(v) == IsInt(v) \/ (IsString(v) /\ isdigit(v.s))
Normalizes(v) == IntOrDigits(v) \/ (v.t = "dict" /\ "id" \in v.keys /\ IntOrDigits(v.id))
OptionalInt(v) == v = NoneVal \/ IsInt(v)

\* the arguments of call c fail the validation its operation documents
FailsValidation(c) ==
    \/ c.op = "create_folder" /\ ~Normalizes(c.args.parent)
    \/ c.op \in {"folder_info", "file_info"} /\ ~IsInt(c.args.id)
    \/ c.op = "upload_file" /\ (~exists(c.args.path) \/ ~Normalizes(c.args.parent))
    \/ c.op = "download_file" /\ (~IsInt(c.args.id) \/ ~OptionalInt(c.args.version_id))
    \/ c.op = "upload_file_version"
       /\ (~exists(c.args.path) \/ ~IsInt(c.args.id) \/ ~IsInt(c.args.etag))
    \/ c.op = "delete_file" /\ (~IsInt(c.args.id) \/ ~OptionalInt(c.args.etag))

\* C1: an endpoint call whose arguments fail validation raises before any
\* network request: the number of requests sent is unchanged by the call and
\* the call has opened no file.
C1_ValidateBeforeIO ==
    [][(last'.op \in EndpointOps /\ FailsValidation(last'))
        => /\ last'.error \in {"TypeError", "ValueError", "Exception"}
           /\ sent' = sent
           /\ opened' = opened
           /\ last'.requests = <<>>
           /\ last'.fh = {}]_vars

C1_Witness ==
    /\ last.op = "upload_file"
    /\ exists(last.args.path)
    /\ ~Normalizes(last.args.parent)
    /\ last.error # "none"
    /\ sent = 1
    /\ opened = 1

\* C2: when upload_file or upload_file_version has returned or raised, no
\* handle it opened is still open.
C2_HandlesClosed ==
    last.op \in UploadOps => last.fh \cap openHandles = {}

\* C3: delete_file with an integer id sends DELETE /files/{id}, with an
\* If-Match header equal to the etag for every integer etag (0 included) and
\* without an If-Match header exactly when the etag is None.
C3_DeleteIfMatch ==
    (last.op = "delete_file" /\ IsInt(last.args.id) /\ OptionalInt(last.args.etag))
    => /\ Len(last.requests) = 1
       /\ LET r == last.requests[1] IN
          /\ r.method = "DELETE"
          /\ r.url = <<API_URL, <<"/files/", FormatD(last.args.id.n)>>>>
          /\ IsInt(last.args.etag)
             => ("If-Match" \in DOMAIN r.headers /\ r.headers["If-Match"] = last.args.etag)
          /\ (last.args.etag = NoneVal) <=> ("If-Match" \notin DOMAIN r.headers)

\* the numeric value of an integer or of a digit-only string
NumericValue(v) == IF IsInt(v) THEN v.n ELSE NumValOf(v.s)

\* the inputs numeric_id_to_object rejects
Rejected(v) ==
    \/ v.t = "dict" /\ "id" \notin v.keys
    \/ v.t = "dict" /\ "id" \in v.keys /\ ~IntOrDigits(v.id)
    \/ v.t # "dict" /\ ~IntOrDigits(v)

\* C4 as stated: for an integer or a digit-only string the id of the record
\* returned is the numeric value of the input; the other inputs fail.
C4_IdIsNumericValue ==
    last.op = "numeric_id_to_object"
    => /\ IntOrDigits(last.args.object_)
          => /\ last.error = "none"
             /\ last.result.t = "dict"
             /\ last.result.id = IntVal(NumericValue(last.args.object_))
       /\ Rejected(last.args.object_) => last.error # "none"

\* C4 amended: for an integer or a digit-only string the id of the record
\* returned is the input itself, unconverted (so its numeric value is that of
\* the input, but a digit string stays a string); a mapping without an id, a
\* mapping whose id is neither, and any other value fail with no result.
C4_IdIsInput ==
    last.op = "numeric_id_to_object"
    => /\ IntOrDigits(last.args.object_)
          => /\ last.error = "none"
             /\ last.result.t = "dict"
             /\ last.result.keys = {"id"}
             /\ last.result.id = last.args.object_
             /\ NumericValue(last.result.id) = NumericValue(last.args.object_)
       /\ Rejected(last.args.object_)
          => (last.error \in {"Exception", "TypeError"} /\ last.result = NoneVal)

C4_Witness ==
    /\ last.op = "numeric_id_to_object"
    /\ last.args.object_ = StrVal(<<"0", "1">>)
    /\ last.error = "none"
    /\ last.result.id = StrVal(<<"0", "1">>)
    /\ NumericValue(last.result.id) = 1

\* the identifier a request of operation op carries
NonNegative(v) == (IsInt(v) /\ v.n >= 0) \/ (IsString(v) /\ isdigit(v.s))
RequestIdOk(op, r) ==
    IF op = "create_folder" THEN NonNegative(r.data.d.parent.id)
    ELSE IF op = "upload_file" THEN NonNegative(r.data.d.parent_id)
    ELSE isdigit(r.url[2][2])
NegativeId(c) ==
    \/ c.op \in {"create_folder", "upload_file"}
       /\ \/ IsInt(c.args.parent) /\ c.args.parent.n < 0
          \/ /\ c.args.parent.t = "dict"
             /\ "id" \in c.args.parent.keys
             /\ IsInt(c.args.parent.id)
             /\ c.args.parent.id.n < 0
    \/ c.op \in EndpointOps \ {"create_folder", "upload_file"}
       /\ IsInt(c.args.id) /\ c.args.id.n < 0

\* C5: every identifier an endpoint request carries is non-negative, and a
\* call given a negative integer identifier fails without sending a request.
C5_NonNegativeIds ==
    last.op \in EndpointOps
    => /\ \A i \in 1..Len(last.requests) : RequestIdOk(last.op, last.requests[i])
       /\ NegativeId(last) => (last.error # "none" /\ last.requests = <<>>)

RECURSIVE Pow10(_)
Pow10(k) == IF k = 0 THEN 1 ELSE 10 * Pow10(k - 1)
JsonNumber(c) == \E n \in 0..(Pow10(Len(c)) - 1) : FormatD(n) = c

\* C7: the result of action is the deserialized value when the body is JSON
\* (the value whose JSON text is the body), the body itself as bytes when it
\* is not JSON and not empty, and None when it is not JSON and empty.
C7_ResultByBody ==
    (last.op = "action" /\ last.error = "none")
    => LET c == last.response.content IN
       IF JsonNumber(c) THEN last.result.t = "int" /\ FormatD(last.result.n) = c
       ELSE IF c # <<>> THEN last.result = StrVal(c)
       ELSE last.result = NoneVal

C7_Witness ==
    /\ last.op = "action"
    /\ last.error = "none"
    /\ last.response.content = <<"0", "1">>
    /\ last.result = StrVal(<<"0", "1">>)

\* C8: with no auth token set, an endpoint call fails and sends no request.
C8_TokenRequired ==
    (last.op \in EndpointOps /\ auth_token = NoneVal)
    => (last.requests = <<>> /\ last.error # "none")

\* the caller of action supplied an Authorization header of its own
Overrides(c) ==
    /\ c.op = "action"
    /\ c.args.headers.t = "dict"
    /\ "Authorization" \in DOMAIN c.args.headers.d

\* C9 as stated: every request carries the Authorization header built from
\* the stored api key and token, whatever headers the caller supplied.
C9_AuthorizationBuilt ==
    \A i \in 1..Len(last.requests) :
        /\ "Authorization" \in DOMAIN last.requests[i].headers
        /\ last.requests[i].headers["Authorization"]
           = AuthorizationValue(api_key, auth_token)

\* C9 amended: every request carries an Authorization header; it is the one
\* built from the stored api key and token unless the headers the caller gave
\* to action contain an Authorization entry, which then replaces it; the
\* requests of the endpoint operations, If-Match or not, carry the built one.
C9_AuthorizationUnlessOverridden ==
    \A i \in 1..Len(last.requests) :
        LET r == last.requests[i] IN
        /\ "Authorization" \in DOMAIN r.headers
        /\ r.headers["Authorization"]
           = IF Overrides(last) THEN last.args.headers.d["Authorization"]
             ELSE AuthorizationValue(api_key, auth_token)
        /\ last.op = "upload_file_version"
           => ("If-Match" \in DOMAIN r.headers /\ r.headers["If-Match"] = last.args.etag)

C9_Witness ==
    /\ last.op = "upload_file_version"
    /\ Len(last.requests) = 1
    /\ DOMAIN last.requests[1].headers = {"Authorization", "If-Match"}
    /\ last.requests[1].headers["Authorization"] = AuthorizationValue(api_key, auth_token)
    /\ auth_token \in Tokens

\* C10: no step changes the api key; only an authorize that returns changes
\* the token; an authorize whose response lacks the token field raises and
\* leaves the token as it was.
C10_OnlyAuthorizeMutates ==
    [][/\ api_key' = api_key
       /\ auth_token' # auth_token => (last'.op = "authorize" /\ last'.error = "none")
       /\ (last'.op = "authorize" /\ last'.args.result.depth < AuthDepth)
          => (last'.error = "Exception" /\ auth_token' = auth_token)
       /\ (last'.op = "authorize" /\ last'.error = "none")
          => auth_token' = last'.args.result.value]_vars

C10_Witness ==
    /\ last.op = "authorize"
    /\ last.error = "Exception"
    /\ auth_token \in Tokens
    /\ sent = 1
====
